---- MODULE Spec2Model ----
(***************************************************************************)
(* A model of the training / evaluation driver of DL_MIMIC (src/main.py,   *)
(* src/loader.py): the epoch loop run_epochs with its checkpoint policy,   *)
(* the batch loops of train and validate, the collator and the metrics     *)
(* table written by evaluate.                                              *)
(*                                                                         *)
(* Numbers: a metric (precision, recall, F1) is an integer number of       *)
(* metric units; an average over the classes is kept as the rational       *)
(* <<numerator, denominator>> so that no division is rounded by the model. *)
(* A logit is an integer number of quarters (1 = 0.25).                    *)
(***************************************************************************)
EXTENDS Integers, Sequences, FiniteSets, TLC

(***************************************************************************)
(* Bounds of the model.                                                    *)
(***************************************************************************)
MaxEpoch == 3        \* args.epoch ranges over 0..MaxEpoch
MaxF1 == 2           \* a per-class F1 of validate ranges over 0..MaxF1
MaxRuns == 2         \* program runs in a row that share the disk
MaxDocs == 2         \* samples in a batch
MaxNotes == 2        \* notes in a document
MaxWords == 4        \* words in a note
MaxBatches == 3      \* batches in a loader
MaxSamples == 1      \* samples in a batch of train or validate
MaxLogit == 3        \* a logit ranges over -MaxLogit..MaxLogit quarters
MaxLoss == 1         \* loss.item() of a batch ranges over 0..MaxLoss
MaxSplit == 1        \* a metrics vector has its first 0..MaxSplit classes set apart
MaxCount == 2        \* positives of a class in a label matrix

(***************************************************************************)
(* Program constants.                                                      *)
(***************************************************************************)
NumClasses == 8      \* HAN(num_classes=8), get_metrics_df
Half == 2            \* the threshold 0.5 of pred[out > 0.5], in quarters
ProgressEvery == 10  \* batch_idx % 10 == 0
RoundDigits == 3     \* metrics.round(3)

Classes == 1..NumClasses

(* a global not yet assigned *)
None == "None"
(* args.resume when the option is not given *)
NoPath == <<>>
(* a path with no file behind it *)
NoFile == [exists |-> FALSE]

(* model_stamp values: the timestamp of a fresh run has minute resolution, *)
(* so two runs can share one.                                              *)
Stamps == {<<"HAN_a">>, <<"HAN_b">>}

(* '%s.pth' % model_stamp *)
PthPath(stamp) == stamp \o <<".", "p", "t", "h">>

(* args.resume[:-4] *)
StripLast4(path) == SubSeq(path, 1, Len(path) - 4)

Paths == {PthPath(s) : s \in Stamps}

RECURSIVE SumTo(_, _)
SumTo(v, n) == IF n = 0 THEN 0 ELSE v[n] + SumTo(v, n - 1)

(* np.sum over a vector of NumClasses entries *)
Sum(v) == SumTo(v, NumClasses)

(* np.average(v) of a per-class vector, as <<numerator, denominator>> *)
Average(v) == <<Sum(v), NumClasses>>

(* a > b for rationals with positive denominators *)
RatGT(a, b) == a[1] * b[2] > b[1] * a[2]

RatEQ(a, b) == a[1] * b[2] = b[1] * a[2]

Zero == <<0, 1>>

(***************************************************************************)
(* State of the program runs.                                              *)
(***************************************************************************)
VARIABLES
  pc,             \* position of the control thread
  args,           \* parsed command line: debug, predict, resume, epoch
  model_stamp,    \* global set by init()
  train_dataset,  \* name of the split data_loader() trains on
  e,              \* loop variable of run_epochs
  best_val_f1,    \* local of run_epochs
  disk,           \* checkpoint files: path -> NoFile or the saved state
  results,        \* files written under result/ by the current run
  trace,          \* phases the current run went through
  seen_f1,        \* history: macro-F1 of every epoch validated in this run
  last_saved,     \* history: did the latest epoch write the checkpoint
  last_writes,    \* history: files the latest epoch wrote
  ckpt_writes,    \* history: checkpoint writes of this run
  runs            \* runs started so far

runVars == <<pc, args, model_stamp, train_dataset, e, best_val_f1, disk, results,
             trace, seen_f1, last_saved, last_writes, ckpt_writes, runs>>

VARIABLES
  batch,          \* the samples handed to collate
  collated        \* what collate returned or raised, Pending before the call

collateVars == <<batch, collated>>

(***************************************************************************)
(* State of one call of train or validate.                                 *)
(***************************************************************************)
VARIABLES
  fn,                   \* the function running: "train" or "validate"
  loader,               \* the loader it iterates
  len_loader,           \* len() of that loader: its number of batches
  len_val_loader,       \* len(val_loader), the global validation loader
  batch_idx,            \* batches consumed so far
  running_loss,         \* rational
  total_predictions,
  correct_predictions,
  acc,                  \* rational
  out,                  \* logits of the latest batch, in quarters
  y,                    \* labels of the latest batch
  pred,                 \* predictions of the latest batch
  preds,                \* validate: prediction rows of all batches so far
  losses,               \* history: loss.item() of every batch so far
  returned              \* the values returned, Pending before the return

loopVars == <<fn, loader, len_loader, len_val_loader, batch_idx, running_loss,
              total_predictions, correct_predictions, acc, out, y, pred, preds,
              losses, returned>>

(***************************************************************************)
(* State of one call of evaluate.                                          *)
(***************************************************************************)
VARIABLES
  metrics_in,     \* the arguments: p, r, f1 and the dataset (name, label matrix sums)
  csv             \* the table written to result/<stamp>_<name>.csv, Pending before

evalVars == <<metrics_in, csv>>

vars == <<runVars, collateVars, loopVars, evalVars>>

notRun == <<collateVars, loopVars, evalVars>>

notCollate == <<runVars, loopVars, evalVars>>

notLoop == <<runVars, collateVars, evalVars>>

notEval == <<runVars, collateVars, loopVars>>

Pending == [status |-> "pending"]

(***************************************************************************)
(* The program runs: __main__, init, data_loader and run_epochs.            *)
(***************************************************************************)
(* per-class F1 vectors validate can return: the first k classes at v *)
F1Vectors ==
  {[c \in Classes |-> IF c <= k THEN v ELSE 0] : k \in {1, NumClasses}, v \in 0..MaxF1}

NoArgs == [debug |-> FALSE, predict |-> FALSE, resume |-> NoPath, epoch |-> 0]

RunInit ==
  /\ pc = "idle"
  /\ args = NoArgs
  /\ model_stamp = <<>>
  /\ train_dataset = None
  /\ e = 0
  /\ best_val_f1 = Zero
  /\ disk = [p \in Paths |-> NoFile]
  /\ results = {}
  /\ trace = <<>>
  /\ seen_f1 = <<>>
  /\ last_saved = FALSE
  /\ last_writes = {}
  /\ ckpt_writes = 0
  /\ runs = 0

(* data_loader(): the split the train loader iterates *)
TrainSplit(debug, predict) == IF debug \/ predict THEN "validation" ELSE "train"

(* faulty variant: saves on a macro-F1 equal to the running best *)
ShouldSave_GE(debug, avg, best) == ~debug /\ ~RatGT(best, avg)

(* faulty variant: saves in debug mode too *)
ShouldSave_NoDebugGuard(debug, avg, best) == RatGT(avg, best)

(* the save condition: not args.debug and np.average(val_f1) > best_val_f1 *)
ShouldSave(debug, avg, best) == ~debug /\ RatGT(avg, best)

(* args.epoch after the debug override: args.epoch = 1 *)
MaxEpochOf(debug, epoch) == IF debug THEN 1 ELSE epoch

(* range(epoch, args.epoch) has a next element *)
LoopNext(i, maxEpoch) == IF i < maxEpoch THEN "train" ELSE "test"

(* __main__: parse the command line, init(), data_loader().  A resumed run  *)
(* loads an existing checkpoint file; a fresh run is stamped by the clock.  *)
StartRun ==
  /\ pc = "idle"
  /\ UNCHANGED notRun
  /\ runs < MaxRuns
  /\ \E debug \in BOOLEAN, predict \in BOOLEAN, epoch \in 0..MaxEpoch,
        resume \in {NoPath} \cup {p \in Paths : disk[p].exists},
        clock \in Stamps :
       /\ args' = [debug |-> debug, predict |-> predict, resume |-> resume,
                   epoch |-> epoch]
       /\ model_stamp' = IF resume # NoPath THEN StripLast4(resume) ELSE clock
       /\ train_dataset' = TrainSplit(debug, predict)
  /\ runs' = runs + 1
  /\ trace' = <<"INIT">>
  /\ pc' = "run_epochs"
  /\ UNCHANGED <<e, best_val_f1, disk, results, seen_f1, last_saved, last_writes,
                 ckpt_writes>>

(* run_epochs up to the loop head, predict-only mode *)
RunEpochsPredict ==
  /\ pc = "run_epochs"
  /\ UNCHANGED notRun
  /\ args.predict
  /\ e' = IF args.resume # NoPath THEN disk[args.resume].epoch + 1 ELSE 0
  /\ pc' = "done"
  /\ UNCHANGED <<args, model_stamp, train_dataset, best_val_f1, disk, results, trace,
                 seen_f1, last_saved, last_writes, ckpt_writes, runs>>

(* run_epochs up to the loop head, training modes *)
RunEpochsEnter ==
  /\ pc = "run_epochs"
  /\ UNCHANGED notRun
  /\ ~args.predict
  /\ LET epoch == IF args.resume # NoPath THEN disk[args.resume].epoch + 1 ELSE 0
         maxEpoch == MaxEpochOf(args.debug, args.epoch)
     IN /\ args' = [args EXCEPT !.epoch = maxEpoch]
        /\ e' = epoch
        /\ pc' = LoopNext(epoch, maxEpoch)
  /\ best_val_f1' = Zero
  /\ UNCHANGED <<model_stamp, train_dataset, disk, results, trace, seen_f1, last_saved,
                 last_writes, ckpt_writes, runs>>

(* one loop iteration, first half: train(epoch, writer) *)
TrainEpoch ==
  /\ pc = "train"
  /\ UNCHANGED notRun
  /\ trace' = Append(trace, "TRAIN_EPOCH")
  /\ pc' = "validate"
  /\ UNCHANGED <<args, model_stamp, train_dataset, e, best_val_f1, disk, results,
                 seen_f1, last_saved, last_writes, ckpt_writes, runs>>

(* one loop iteration, second half: validate(val_loader) and the checkpoint *)
ValidateEpoch ==
  /\ pc = "validate"
  /\ UNCHANGED notRun
  /\ \E val_f1 \in F1Vectors :
       LET avg == Average(val_f1)
           save == ShouldSave(args.debug, avg, best_val_f1)
           path == PthPath(model_stamp)
       IN /\ seen_f1' = Append(seen_f1, avg)
          /\ last_saved' = save
          /\ IF save
               THEN /\ best_val_f1' = avg
                    /\ disk' = [disk EXCEPT ![path] = [exists |-> TRUE, epoch |-> e, f1 |-> avg]]
                    /\ last_writes' = {"pth", train_dataset, "validation", "pred"}
                    /\ results' = results \cup {train_dataset, "validation", "pred"}
                    /\ ckpt_writes' = ckpt_writes + 1
               ELSE /\ last_writes' = {}
                    /\ UNCHANGED <<best_val_f1, disk, results, ckpt_writes>>
  /\ trace' = Append(trace, "VALIDATE")
  /\ e' = e + 1
  /\ pc' = LoopNext(e + 1, args.epoch)
  /\ UNCHANGED <<args, model_stamp, train_dataset, runs>>

(* after the loop: validate(test_loader), evaluate(..., test_dataset) *)
TestPass ==
  /\ pc = "test"
  /\ UNCHANGED notRun
  /\ results' = results \cup {"test"}
  /\ trace' = Append(trace, "TEST")
  /\ pc' = "done"
  /\ UNCHANGED <<args, model_stamp, train_dataset, e, best_val_f1, disk, seen_f1,
                 last_saved, last_writes, ckpt_writes, runs>>

(* the process ends; the checkpoint files stay *)
Exit ==
  /\ pc = "done"
  /\ UNCHANGED notRun
  /\ runs < MaxRuns
  /\ pc' = "idle"
  /\ args' = NoArgs
  /\ model_stamp' = <<>>
  /\ train_dataset' = None
  /\ e' = 0
  /\ best_val_f1' = Zero
  /\ results' = {}
  /\ trace' = <<>>
  /\ seen_f1' = <<>>
  /\ last_saved' = FALSE
  /\ last_writes' = {}
  /\ ckpt_writes' = 0
  /\ UNCHANGED <<disk, runs>>

(***************************************************************************)
(* The collator: collate(batch) of src/main.py.  A document is a sequence  *)
(* of notes, a note a sequence of word ids (all >= 1; 0 is the padding), a *)
(* sample a document with its label vector.                                *)
(***************************************************************************)
RECURSIVE MaxOf(_)
(* max over a non-empty finite set of naturals *)
MaxOf(S) ==
  LET x == CHOOSE v \in S : TRUE
  IN IF S = {x} THEN x ELSE LET m == MaxOf(S \ {x}) IN IF x > m THEN x ELSE m

(* a note of n words *)
Note(n) == [i \in 1..n |-> 1]

Notes == {Note(n) : n \in 0..MaxWords}

Documents == UNION {[1..k -> Notes] : k \in 1..MaxNotes}

LabelVectors == {[c \in Classes |-> IF c <= k THEN 1 ELSE 0] : k \in {0, 1}}

Samples == [X : Documents, y : LabelVectors]

Batches == UNION {[1..n -> Samples] : n \in 1..MaxDocs}

(* np.array(X).shape has two entries: every document has note_size notes *)
Rectangular(b) == \A i \in 1..Len(b) : Len(b[i].X) = Len(b[1].X)

(* rnn.pad_sequence(seqs, batch_first=True): rows padded with 0 to the longest *)
pad_sequence(seqs) ==
  LET width == MaxOf({Len(seqs[i]) : i \in 1..Len(seqs)})
  IN [i \in 1..Len(seqs) |->
        [w \in 1..width |-> IF w <= Len(seqs[i]) THEN seqs[i][w] ELSE 0]]

(* collate(batch): X.shape unpacks into (batch_size, note_size) only for a  *)
(* rectangular batch; a ragged one raises ValueError.                       *)
collate(b) ==
  IF ~Rectangular(b)
    THEN [status |-> "ValueError"]
    ELSE LET batch_size == Len(b)
             note_size == Len(b[1].X)
         IN [status |-> "returned",
             X |-> [j \in 1..note_size |->
                      pad_sequence([i \in 1..batch_size |-> b[i].X[j]])],
             word_nums |-> [i \in 1..batch_size |->
                              [j \in 1..note_size |-> Len(b[i].X[j])]],
             y |-> [i \in 1..batch_size |-> b[i].y]]

CollateIdle ==
  /\ batch = <<>>
  /\ collated = Pending

CollateInit ==
  /\ batch \in Batches
  /\ collated = Pending

(* the DataLoader calls collate_fn on the samples of one batch *)
Collate ==
  /\ collated = Pending
  /\ batch # <<>>
  /\ collated' = collate(batch)
  /\ UNCHANGED <<batch, notCollate>>

(***************************************************************************)
(* The batch loops: train(epoch, writer) and validate(loader).  The        *)
(* precision / recall / F1 of sklearn and the plots are left out.          *)
(***************************************************************************)
LogitRows == {[c \in Classes |-> a] : a \in (0 - MaxLogit)..MaxLogit}

LabelRows == {[c \in Classes |-> IF c <= k THEN 1 ELSE 0] : k \in {0, 1, NumClasses}}

(* what net(x) and the labels of one batch can be *)
OutBatches == UNION {[1..n -> LogitRows] : n \in 1..MaxSamples}

LabelBatches == UNION {[1..n -> LabelRows] : n \in 1..MaxSamples}

(* pred = torch.zeros(out.shape); pred[out > 0.5] = 1.0 *)
Threshold(o) ==
  [i \in 1..Len(o) |-> [c \in Classes |-> IF o[i][c] > Half THEN 1 ELSE 0]]

(* (pred == y).sum().item() *)
CorrectCount(pr, lab) ==
  Cardinality({ic \in (1..Len(lab)) \X Classes : pr[ic[1]][ic[2]] = lab[ic[1]][ic[2]]})

(* the accuracy train keeps: refreshed on the progress batches only *)
TrainAcc(idx, old, correct, total) ==
  IF idx % ProgressEvery = 0 THEN <<correct, total>> ELSE old

(* the divisor of running_loss at the end of train *)
TrainLossDivisor(lenLoader, lenVal) == lenLoader

(* the divisor of running_loss at the end of validate: len(val_loader) *)
ValidateLossDivisor(lenLoader, lenVal) == lenVal

RatDiv(a, n) == <<a[1], a[2] * n>>

LoopIdle ==
  /\ fn = None
  /\ loader = None
  /\ len_loader = 0
  /\ len_val_loader = 0
  /\ batch_idx = 0
  /\ running_loss = Zero
  /\ total_predictions = 0
  /\ correct_predictions = 0
  /\ acc = Zero
  /\ out = <<>>
  /\ y = <<>>
  /\ pred = <<>>
  /\ preds = <<>>
  /\ losses = <<>>
  /\ returned = Pending

(* run_epochs calls train(epoch, writer): the locals are reset *)
CallTrain ==
  /\ fn = None
  /\ fn' = "train"
  /\ loader' = "train"
  /\ len_loader' \in 1..MaxBatches
  /\ len_val_loader' \in 1..MaxBatches
  /\ UNCHANGED <<batch_idx, running_loss, total_predictions, correct_predictions, acc,
                 out, y, pred, preds, losses, returned, notLoop>>

(* run_epochs calls validate(val_loader) or validate(test_loader) *)
CallValidate ==
  /\ fn = None
  /\ fn' = "validate"
  /\ \E name \in {"validation", "test"}, n \in 1..MaxBatches, nVal \in 1..MaxBatches :
       /\ name = "validation" => n = nVal
       /\ loader' = name
       /\ len_loader' = n
       /\ len_val_loader' = nVal
  /\ UNCHANGED <<batch_idx, running_loss, total_predictions, correct_predictions, acc,
                 out, y, pred, preds, losses, returned, notLoop>>

(* one iteration of the loop of train *)
TrainBatch ==
  /\ fn = "train"
  /\ returned = Pending
  /\ batch_idx < len_loader
  /\ \E o \in OutBatches, lab \in LabelBatches, loss \in 0..MaxLoss :
       /\ Len(o) = Len(lab)
       /\ LET pr == Threshold(o)
              total == total_predictions + Len(lab) * NumClasses
              correct == correct_predictions + CorrectCount(pr, lab)
          IN /\ out' = o
             /\ y' = lab
             /\ pred' = pr
             /\ total_predictions' = total
             /\ correct_predictions' = correct
             /\ running_loss' = <<running_loss[1] + loss, 1>>
             /\ losses' = Append(losses, loss)
             /\ acc' = TrainAcc(batch_idx, acc, correct, total)
  /\ batch_idx' = batch_idx + 1
  /\ UNCHANGED <<fn, loader, len_loader, len_val_loader, preds, returned, notLoop>>

(* the end of train: running_loss /= len(train_loader); return *)
TrainReturn ==
  /\ fn = "train"
  /\ returned = Pending
  /\ batch_idx = len_loader
  /\ running_loss' = RatDiv(running_loss, TrainLossDivisor(len_loader, len_val_loader))
  /\ returned' = [status |-> "returned", running_loss |-> running_loss', acc |-> acc]
  /\ UNCHANGED <<fn, loader, len_loader, len_val_loader, batch_idx, total_predictions,
                 correct_predictions, acc, out, y, pred, preds, losses, notLoop>>

(* one iteration of the loop of validate *)
ValidateBatch ==
  /\ fn = "validate"
  /\ returned = Pending
  /\ batch_idx < len_loader
  /\ \E o \in OutBatches, lab \in LabelBatches, loss \in 0..MaxLoss :
       /\ Len(o) = Len(lab)
       /\ LET pr == Threshold(o)
          IN /\ out' = o
             /\ y' = lab
             /\ pred' = pr
             /\ preds' = preds \o pr
             /\ total_predictions' = total_predictions + Len(lab) * NumClasses
             /\ correct_predictions' = correct_predictions + CorrectCount(pr, lab)
             /\ running_loss' = <<running_loss[1] + loss, 1>>
             /\ losses' = Append(losses, loss)
  /\ batch_idx' = batch_idx + 1
  /\ UNCHANGED <<fn, loader, len_loader, len_val_loader, acc, returned, notLoop>>

(* the end of validate: running_loss /= len(val_loader); acc; return *)
ValidateReturn ==
  /\ fn = "validate"
  /\ returned = Pending
  /\ batch_idx = len_loader
  /\ running_loss' = RatDiv(running_loss, ValidateLossDivisor(len_loader, len_val_loader))
  /\ acc' = <<correct_predictions, total_predictions>>
  /\ returned' = [status |-> "returned", running_loss |-> running_loss', acc |-> acc',
                  preds |-> preds]
  /\ UNCHANGED <<fn, loader, len_loader, len_val_loader, batch_idx, total_predictions,
                 correct_predictions, out, y, pred, preds, losses, notLoop>>

(***************************************************************************)
(* The metrics table: Data.proportion and evaluate(p, r, f1, dataset).     *)
(* A metric is an integer number of units of 10^-RoundDigits.              *)
(***************************************************************************)
Unit == 10 ^ RoundDigits

MetricValues == {0, Unit \div 2, Unit}

SplitVectors(vals) ==
  {[c \in Classes |-> IF c <= k THEN a ELSE b] : k \in 0..MaxSplit, a \in vals, b \in vals}

MetricVectors == SplitVectors(MetricValues)

(* np.sum(y, axis=0) of a label matrix with at least one positive flag *)
LabelSums == {v \in SplitVectors(0..MaxCount) : Sum(v) > 0}

(* Data.__init__: self.proportion = np.sum(y, axis=0) / np.sum(y) *)
Proportion(sums) == [c \in Classes |-> <<sums[c], Sum(sums)>>]

(* round to the nearest unit, ties to even, of a non-negative rational *)
Round(q) ==
  LET n == q[1] \div q[2]
      rem == q[1] % q[2]
  IN IF 2 * rem < q[2] THEN n
     ELSE IF 2 * rem > q[2] THEN n + 1
     ELSE IF n % 2 = 0 THEN n ELSE n + 1

(* sum over the classes of metric x proportion, as a rational *)
WeightedSum(m, proportion) ==
  <<Sum([c \in Classes |-> m[c] * proportion[c][1]]), proportion[1][2]>>

(* np.average(m * dataset.proportion): the mean of the products *)
MicroAvg(m, proportion) == RatDiv(WeightedSum(m, proportion), NumClasses)

(* np.average(m) *)
MacroAvg(m) == Average(m)

(* evaluate: the table after metrics.round(3), columns p, r, f1 *)
evaluate(p, r, f1, dataset) ==
  LET cols == <<p, r, f1>>
  IN [status |-> "written",
      name |-> dataset.name,
      rows |-> [c \in Classes |-> [k \in 1..3 |-> Round(<<cols[k][c], 1>>)]],
      micro_avg |-> [k \in 1..3 |-> Round(MicroAvg(cols[k], dataset.proportion))],
      macro_avg |-> [k \in 1..3 |-> Round(MacroAvg(cols[k]))]]

EvalIdle ==
  /\ metrics_in = Pending
  /\ csv = Pending

EvalInit ==
  /\ metrics_in \in [p : MetricVectors, r : MetricVectors, f1 : MetricVectors,
                     name : {"train", "validation", "test"}, sums : LabelSums]
  /\ csv = Pending

(* run_epochs calls evaluate on the metrics of a split *)
Evaluate ==
  /\ metrics_in # Pending
  /\ csv = Pending
  /\ csv' = evaluate(metrics_in.p, metrics_in.r, metrics_in.f1,
                     [name |-> metrics_in.name,
                      proportion |-> Proportion(metrics_in.sums)])
  /\ UNCHANGED <<metrics_in, notEval>>

(***************************************************************************)
(* Specifications.                                                         *)
(***************************************************************************)
Init == RunInit /\ CollateIdle /\ LoopIdle /\ EvalIdle

Next ==
  \/ StartRun
  \/ RunEpochsPredict
  \/ RunEpochsEnter
  \/ TrainEpoch
  \/ ValidateEpoch
  \/ TestPass
  \/ Exit

(* the program runs *)
Spec == Init /\ [][Next]_vars

InitCollate == RunInit /\ CollateInit /\ LoopIdle /\ EvalIdle

NextCollate == Collate

(* collate applied to every batch within the bounds *)
SpecCollate == InitCollate /\ [][NextCollate]_vars

NextLoop ==
  \/ CallTrain
  \/ CallValidate
  \/ TrainBatch
  \/ TrainReturn
  \/ ValidateBatch
  \/ ValidateReturn

(* one call of train or validate, batch by batch *)
SpecLoop == Init /\ [][NextLoop]_vars

InitEvaluate == RunInit /\ CollateIdle /\ LoopIdle /\ EvalInit

NextEvaluate == Evaluate

(* evaluate applied to every metrics input within the bounds *)
SpecEvaluate == InitEvaluate /\ [][NextEvaluate]_vars

(***************************************************************************)
(* Properties of the program runs (specification Spec).                    *)
(***************************************************************************)
RatMax(a, b) == IF RatGT(b, a) THEN b ELSE a

RECURSIVE BestOfFirst(_, _)
(* the best macro-F1 among the first n epochs of a run, 0 before any *)
BestOfFirst(hist, n) ==
  IF n = 0 THEN Zero ELSE RatMax(BestOfFirst(hist, n - 1), hist[n])

Count(t, phase) == Cardinality({i \in 1..Len(t) : t[i] = phase})

AllSaveFiles == {"pth", "train", "validation", "pred"}

(* C1: in a non-debug run, the epoch that has just been validated writes    *)
(* the checkpoint, both metrics tables and the prediction dump if its       *)
(* macro-F1 is strictly greater than the best macro-F1 of the run's earlier *)
(* epochs (0 before any), and writes nothing otherwise.                     *)
C1_SaveIffStrictlyBetter ==
  [][(pc = "validate" /\ ~args.debug) =>
       LET cur == seen_f1'[Len(seen_f1')]
           path == PthPath(model_stamp)
       IN IF RatGT(cur, BestOfFirst(seen_f1, Len(seen_f1)))
            THEN /\ disk'[path] = [exists |-> TRUE, epoch |-> e, f1 |-> cur]
                 /\ last_writes' = AllSaveFiles
                 /\ {"train", "validation", "pred"} \subseteq results'
            ELSE /\ disk' = disk
                 /\ results' = results
                 /\ last_writes' = {}]_vars

(* C1 witness: a second epoch that equals the best of the run wrote nothing *)
C1_Witness ==
  /\ ~args.debug
  /\ Len(seen_f1) = 2
  /\ RatGT(seen_f1[1], Zero)
  /\ RatEQ(seen_f1[2], seen_f1[1])
  /\ ckpt_writes = 1
  /\ last_writes = {}

(* C2: a predict-only run ends having run no training epoch and exactly one *)
(* test pass, whose metrics table is written.                               *)
C2_PredictRunsTestPass ==
  (pc = "done" /\ args.predict) =>
    /\ Count(trace, "TRAIN_EPOCH") = 0
    /\ Count(trace, "TEST") = 1
    /\ "test" \in results

PhaseSuccessors(phase) ==
  CASE phase = "INIT" -> {"TRAIN_EPOCH", "TEST"}
    [] phase = "TRAIN_EPOCH" -> {"VALIDATE"}
    [] phase = "VALIDATE" -> {"TRAIN_EPOCH", "TEST"}
    [] OTHER -> {}

PhaseOrder(t) ==
  /\ Len(t) > 0 => t[1] = "INIT"
  /\ \A i \in 1..(Len(t) - 1) : t[i + 1] \in PhaseSuccessors(t[i])

(* C3: every run follows INIT (TRAIN_EPOCH VALIDATE)* TEST, and a finished  *)
(* run has made exactly one test pass, last, with its metrics written.      *)
C3_PhaseOrder ==
  /\ PhaseOrder(trace)
  /\ pc = "done" =>
       /\ Count(trace, "TEST") = 1
       /\ trace[Len(trace)] = "TEST"
       /\ "test" \in results

(* C4 as claimed: a debug run writes no checkpoint, trains on the           *)
(* validation split, and ends with exactly one TRAIN_EPOCH/VALIDATE pair    *)
(* when it does not resume.                                                 *)
C4_DebugSingleEpoch_Original ==
  args.debug =>
    /\ ckpt_writes = 0
    /\ last_writes = {}
    /\ results \subseteq {"test"}
    /\ train_dataset = "validation"
    /\ Count(trace, "TRAIN_EPOCH") <= 1
    /\ (pc = "done" /\ args.resume = NoPath) =>
         /\ Count(trace, "TRAIN_EPOCH") = 1
         /\ Count(trace, "VALIDATE") = 1

(* C4 amended: a debug run writes no checkpoint, trains on the validation   *)
(* split, and ends with exactly one TRAIN_EPOCH/VALIDATE pair when it       *)
(* neither resumes nor is predict-only.                                     *)
C4_DebugSingleEpoch ==
  args.debug =>
    /\ ckpt_writes = 0
    /\ last_writes = {}
    /\ results \subseteq {"test"}
    /\ train_dataset = "validation"
    /\ Count(trace, "TRAIN_EPOCH") <= 1
    /\ (pc = "done" /\ args.resume = NoPath /\ ~args.predict) =>
         /\ Count(trace, "TRAIN_EPOCH") = 1
         /\ Count(trace, "VALIDATE") = 1

(* C4 witness: a finished debug run whose only epoch beat the running best *)
C4_Witness ==
  /\ pc = "done"
  /\ args.debug /\ ~args.predict /\ args.resume = NoPath
  /\ trace = <<"INIT", "TRAIN_EPOCH", "VALIDATE", "TEST">>
  /\ RatGT(seen_f1[1], Zero)
  /\ ckpt_writes = 0
  /\ \A p \in Paths : ~disk[p].exists

(* C9: a resumed run replaces the checkpoint it was loaded from only by an  *)
(* epoch whose validation macro-F1 is strictly greater than that of the     *)
(* epoch whose checkpoint is replaced.                                      *)
C9_OverwriteOnlyByBetter ==
  [][\A p \in Paths :
       (args.resume = p /\ disk[p].exists /\ disk'[p] # disk[p])
         => RatGT(disk'[p].f1, disk[p].f1)]_vars

(***************************************************************************)
(* Properties of the collator (specification SpecCollate).                 *)
(***************************************************************************)
NoteCounts(b) == {Len(b[i].X) : i \in 1..Len(b)}

(* the word counts of the notes the documents of b have at position j *)
WordCountsAt(b, j) == {Len(b[i].X[j]) : i \in {d \in 1..Len(b) : Len(b[d].X) >= j}}

(* C5: for a batch whose documents differ in their number of notes, collate *)
(* returns one tensor per note position up to the largest number of notes,  *)
(* each of batch_size rows as wide as the longest note at that position,    *)
(* the row of a document that has no note there being all padding (0).      *)
C5_RaggedBatchPadded ==
  (collated # Pending /\ ~Rectangular(batch)) =>
    /\ collated.status = "returned"
    /\ Len(collated.X) = MaxOf(NoteCounts(batch))
    /\ \A j \in 1..Len(collated.X) :
         /\ Len(collated.X[j]) = Len(batch)
         /\ \A i \in 1..Len(batch) :
              /\ Len(collated.X[j][i]) = MaxOf(WordCountsAt(batch, j))
              /\ Len(batch[i].X) < j =>
                   \A w \in 1..Len(collated.X[j][i]) : collated.X[j][i][w] = 0

(***************************************************************************)
(* Properties of train and validate (specification SpecLoop).              *)
(***************************************************************************)
RECURSIVE SumSeq(_)
SumSeq(q) == IF q = <<>> THEN 0 ELSE Head(q) + SumSeq(Tail(q))

(* C6: in train and in validate, the prediction of every (sample, class) of *)
(* a batch is 1 exactly when its logit is above 0.                          *)
C6_PredictionIsLogitAboveZero ==
  (fn # None /\ batch_idx > 0) =>
    \A i \in 1..Len(out) : \A c \in Classes :
      pred[i][c] = IF out[i][c] > 0 THEN 1 ELSE 0

(* C8: the accuracy train returns is the number of correctly predicted      *)
(* label flags over the number of label flags of all batches of the epoch.  *)
C8_TrainAccOverAllBatches ==
  (fn = "train" /\ returned # Pending) =>
    RatEQ(returned.acc, <<correct_predictions, total_predictions>>)

(* C10: the loss validate returns is the sum of the batch losses over the   *)
(* number of batches of the loader it was given.                            *)
C10_ValidateLossIsMeanOfLoader ==
  (fn = "validate" /\ returned # Pending) =>
    RatEQ(returned.running_loss, <<SumSeq(losses), len_loader>>)

(***************************************************************************)
(* Properties of the metrics table (specification SpecEvaluate).           *)
(***************************************************************************)
(* C7: in the table evaluate writes, the micro_avg entry of each column is  *)
(* the sum over the classes of metric x proportion (the proportions summing *)
(* to 1) and the macro_avg entry is the mean of the per-class values, both  *)
(* rounded to RoundDigits decimals.                                         *)
C7_MicroIsWeightedMacroIsMean ==
  csv # Pending =>
    LET cols == <<metrics_in.p, metrics_in.r, metrics_in.f1>>
        total == Sum(metrics_in.sums)
    IN \A k \in 1..3 :
         /\ csv.micro_avg[k] =
              Round(<<Sum([c \in Classes |-> cols[k][c] * metrics_in.sums[c]]), total>>)
         /\ csv.macro_avg[k] = Round(<<Sum(cols[k]), NumClasses>>)

(***************************************************************************)
(* Companions: what does hold where a property above fails.                *)
(***************************************************************************)
(* every run that is not predict-only follows the phase order of C3 *)
PhaseOrderWithoutPredict == ~args.predict => C3_PhaseOrder

(* a batch whose documents all have the same number of notes is padded      *)
(* position by position, every row being its note followed by zeros         *)
RectangularBatchPadded ==
  (collated # Pending /\ Rectangular(batch)) =>
    /\ collated.status = "returned"
    /\ Len(collated.X) = Len(batch[1].X)
    /\ \A j \in 1..Len(collated.X) :
         /\ Len(collated.X[j]) = Len(batch)
         /\ \A i \in 1..Len(batch) :
              /\ Len(collated.X[j][i]) = MaxOf(WordCountsAt(batch, j))
              /\ \A w \in 1..Len(collated.X[j][i]) :
                   collated.X[j][i][w] =
                     IF w <= Len(batch[i].X[j]) THEN batch[i].X[j][w] ELSE 0

(* the prediction is 1 exactly when the logit is above 0.5 *)
PredictionIsLogitAboveHalf ==
  (fn # None /\ batch_idx > 0) =>
    \A i \in 1..Len(out) : \A c \in Classes :
      pred[i][c] = IF out[i][c] > Half THEN 1 ELSE 0

(* validate returns the accuracy over all batches *)
ValidateAccOverAllBatches ==
  (fn = "validate" /\ returned # Pending) =>
    RatEQ(returned.acc, <<correct_predictions, total_predictions>>)

(* validate(val_loader) returns the mean batch loss of the validation loader *)
ValidationLossIsMean == loader = "validation" => C10_ValidateLossIsMeanOfLoader

(* the macro_avg row is the rounded mean of the per-class values *)
MacroIsMean ==
  csv # Pending =>
    LET cols == <<metrics_in.p, metrics_in.r, metrics_in.f1>>
    IN \A k \in 1..3 : csv.macro_avg[k] = Round(<<Sum(cols[k]), NumClasses>>)
====
